---- MODULE Spec2Model ----
(***************************************************************************)
(* pgmg: the migration orchestration engine (phase scheduler, hook         *)
(* decision, generated-role lifecycle, persisted bookkeeping), modelled    *)
(* from the latest revision of the CLI (src/unnamed/part_006, lines        *)
(* 559-1236).  One behaviour is a sequence of invocations of the CLI       *)
(* against one database server: the tables pgmg.migration and              *)
(* pgmg.migration_hook, the server's roles and the health-check file       *)
(* persist from one invocation to the next; argv, the host name and the    *)
(* position inside main() belong to the invocation in progress.            *)
(***************************************************************************)
EXTENDS Integers, Sequences, FiniteSets, TLC

\* ------------------------------------------------------------------ bounds

\* Invocations of the CLI in one behaviour.
MaxRuns == 3

\* ------------------------------------------------------- program constants

\* created_at is kept as its place among the instants the code compares it
\* with: Before the legacy cutover '2022-08-11', the Cutover instant itself,
\* Earlier (after the cutover, before the running process started), and now
\* (since the running process started).
Before == -1

Cutover == 0

Earlier == 1

now == 2

\* migration_start_time = new Date(), taken when the process starts.
migration_start_time == now

\* `export const revision = 2`; a row written without it holds NULL.
revision == 2

NullRevision == 0

\* ------------------------------------------------------------------ inputs

\* The migration files passed on the command line, in the caller's order.
migrations == <<"m1", "m2">>

Names == {migrations[i] : i \in 1..Len(migrations)}

Hosts == {"host-a", "host-b"}

HookNames == {"teardown", "cluster", "action", "always"}

\* What a migration file exports.  managedUsers is "undefined" when the file
\* does not export it.
RawModule(hasName, cluster, action, always, teardown, transaction, managedUsers) ==
    [name |-> hasName, cluster |-> cluster, action |-> action, always |-> always,
     teardown |-> teardown, transaction |-> transaction, managedUsers |-> managedUsers]

\* A command line: the mode flags.
Argv ==
    [dev : BOOLEAN, prod : BOOLEAN, teardown : BOOLEAN, dry : BOOLEAN,
     dryComplete : BOOLEAN, restore : BOOLEAN]

NoArgv ==
    [dev |-> FALSE, prod |-> FALSE, teardown |-> FALSE, dry |-> FALSE,
     dryComplete |-> FALSE, restore |-> FALSE]

\* ------------------------------------------------------------------- state

VARIABLES
    files,          \* files[n]: what migration file n exports
    flaky,          \* the user-written bodies <<name, hook>> that may throw
    cmds,           \* the command lines [argv, hostname] the operator uses
    migration,      \* table pgmg.migration: rows [name, created_at]
    migration_hook, \* table pgmg.migration_hook: rows [name, hook, dev, hostname, created_at, revision]
    pg_roles,       \* pg_catalog.pg_roles: the generated roles that exist
    healthFile,     \* whether the health-check file exists
    run,            \* how many invocations were started
    argv,           \* flags of the invocation in progress (or of the last one)
    hostname,       \* getHostName() of that invocation
    pc,             \* "idle" | "phase" | "migration" | "hook"
    ph,             \* index into order
    mi,             \* index into migrations
    hi,             \* index into the hook phase
    noMigrationUserFound, \* as computed when the current migration was entered
    role,           \* the session's active role: "ambient" or a generated role
    exitCode,       \* -1 while running or before any run, else the exit status
    log,            \* what this invocation did, in order
    start,          \* the persisted state when this invocation started
    prev,           \* the previous invocation, if it ended with status 0
    before          \* the invocation before that one, if both ended with status 0

vars ==
    <<files, flaky, cmds, migration, migration_hook, pg_roles, healthFile, run,
      argv, hostname, pc, ph, mi, hi, noMigrationUserFound, role, exitCode, log,
      start, prev, before>>

\* ------------------------------------------------- the order of the phases

HookSpec(name, skip, rememberChange, ifExists, ifNoMigrationUser, always) ==
    [name |-> name, skip |-> skip, rememberChange |-> rememberChange,
     ifExists |-> ifExists, ifNoMigrationUser |-> ifNoMigrationUser,
     always |-> always]

Phase(name, skip, hooks) == [name |-> name, skip |-> skip, hooks |-> hooks]

\* order with the always hook left out of the bookkeeping (no rememberChange).
order_AlwaysNotRemembered(a) ==
    IF a.dev /\ a.teardown
    THEN << Phase("setupPGMG", FALSE, <<>>),
            Phase("devTeardown", FALSE,
                  << << HookSpec("teardown", FALSE, FALSE, TRUE, FALSE, FALSE) >> >>),
            Phase("removeDevMigrationRecords", FALSE, << <<>> >>) >>
    ELSE << Phase("dropCreate", ~a.restore, <<>>),
            Phase("restore", ~a.restore, <<>>),
            Phase("setupPGMG", FALSE, <<>>),
            Phase("clusterMigrate", FALSE,
                  << << HookSpec("teardown", ~a.dev, FALSE, TRUE, FALSE, FALSE),
                        HookSpec("cluster", FALSE, TRUE, FALSE, TRUE, FALSE) >> >>),
            Phase("databaseMigrate", FALSE,
                  << << HookSpec("action", FALSE, TRUE, FALSE, FALSE, FALSE),
                        HookSpec("always", FALSE, FALSE, FALSE, FALSE, TRUE) >> >>) >>

\* order with the always hook ahead of the action hook in databaseMigrate.
order_AlwaysFirst(a) ==
    IF a.dev /\ a.teardown
    THEN << Phase("setupPGMG", FALSE, <<>>),
            Phase("devTeardown", FALSE,
                  << << HookSpec("teardown", FALSE, FALSE, TRUE, FALSE, FALSE) >> >>),
            Phase("removeDevMigrationRecords", FALSE, << <<>> >>) >>
    ELSE << Phase("dropCreate", ~a.restore, <<>>),
            Phase("restore", ~a.restore, <<>>),
            Phase("setupPGMG", FALSE, <<>>),
            Phase("clusterMigrate", FALSE,
                  << << HookSpec("teardown", ~a.dev, FALSE, TRUE, FALSE, FALSE),
                        HookSpec("cluster", FALSE, TRUE, FALSE, TRUE, FALSE) >> >>),
            Phase("databaseMigrate", FALSE,
                  << << HookSpec("always", FALSE, TRUE, FALSE, FALSE, TRUE),
                        HookSpec("action", FALSE, TRUE, FALSE, FALSE, FALSE) >> >>) >>

\* order with clusterMigrate and databaseMigrate merged into one hook phase.
order_OneGroup(a) ==
    IF a.dev /\ a.teardown
    THEN << Phase("setupPGMG", FALSE, <<>>),
            Phase("devTeardown", FALSE,
                  << << HookSpec("teardown", FALSE, FALSE, TRUE, FALSE, FALSE) >> >>),
            Phase("removeDevMigrationRecords", FALSE, << <<>> >>) >>
    ELSE << Phase("dropCreate", ~a.restore, <<>>),
            Phase("restore", ~a.restore, <<>>),
            Phase("setupPGMG", FALSE, <<>>),
            Phase("databaseMigrate", FALSE,
                  << << HookSpec("teardown", ~a.dev, FALSE, TRUE, FALSE, FALSE),
                        HookSpec("cluster", FALSE, TRUE, FALSE, TRUE, FALSE),
                        HookSpec("action", FALSE, TRUE, FALSE, FALSE, FALSE),
                        HookSpec("always", FALSE, TRUE, FALSE, FALSE, TRUE) >> >>) >>

\* order with teardown mode entered on --teardown alone, --dev or not.
order_TeardownWithoutDev(a) ==
    IF a.teardown
    THEN << Phase("setupPGMG", FALSE, <<>>),
            Phase("devTeardown", FALSE,
                  << << HookSpec("teardown", FALSE, FALSE, TRUE, FALSE, FALSE) >> >>),
            Phase("removeDevMigrationRecords", FALSE, << <<>> >>) >>
    ELSE << Phase("dropCreate", ~a.restore, <<>>),
            Phase("restore", ~a.restore, <<>>),
            Phase("setupPGMG", FALSE, <<>>),
            Phase("clusterMigrate", FALSE,
                  << << HookSpec("teardown", ~a.dev, FALSE, TRUE, FALSE, FALSE),
                        HookSpec("cluster", FALSE, TRUE, FALSE, TRUE, FALSE) >> >>),
            Phase("databaseMigrate", FALSE,
                  << << HookSpec("action", FALSE, TRUE, FALSE, FALSE, FALSE),
                        HookSpec("always", FALSE, TRUE, FALSE, FALSE, TRUE) >> >>) >>

\* order with the schema set up before the backup is restored.
order_SetupBeforeRestore(a) ==
    IF a.dev /\ a.teardown
    THEN << Phase("setupPGMG", FALSE, <<>>),
            Phase("devTeardown", FALSE,
                  << << HookSpec("teardown", FALSE, FALSE, TRUE, FALSE, FALSE) >> >>),
            Phase("removeDevMigrationRecords", FALSE, << <<>> >>) >>
    ELSE << Phase("dropCreate", ~a.restore, <<>>),
            Phase("setupPGMG", FALSE, <<>>),
            Phase("restore", ~a.restore, <<>>),
            Phase("clusterMigrate", FALSE,
                  << << HookSpec("teardown", ~a.dev, FALSE, TRUE, FALSE, FALSE),
                        HookSpec("cluster", FALSE, TRUE, FALSE, TRUE, FALSE) >> >>),
            Phase("databaseMigrate", FALSE,
                  << << HookSpec("action", FALSE, TRUE, FALSE, FALSE, FALSE),
                        HookSpec("always", FALSE, TRUE, FALSE, FALSE, TRUE) >> >>) >>

\* order with the development records purged ahead of the teardown pass.
order_PurgeFirst(a) ==
    IF a.dev /\ a.teardown
    THEN << Phase("setupPGMG", FALSE, <<>>),
            Phase("removeDevMigrationRecords", FALSE, << <<>> >>),
            Phase("devTeardown", FALSE,
                  << << HookSpec("teardown", FALSE, FALSE, TRUE, FALSE, FALSE) >> >>) >>
    ELSE << Phase("dropCreate", ~a.restore, <<>>),
            Phase("restore", ~a.restore, <<>>),
            Phase("setupPGMG", FALSE, <<>>),
            Phase("clusterMigrate", FALSE,
                  << << HookSpec("teardown", ~a.dev, FALSE, TRUE, FALSE, FALSE),
                        HookSpec("cluster", FALSE, TRUE, FALSE, TRUE, FALSE) >> >>),
            Phase("databaseMigrate", FALSE,
                  << << HookSpec("action", FALSE, TRUE, FALSE, FALSE, FALSE),
                        HookSpec("always", FALSE, TRUE, FALSE, FALSE, TRUE) >> >>) >>

\* const order = argv.dev && argv.teardown ? [...] : [...]
order(a) ==
    IF a.dev /\ a.teardown
    THEN << Phase("setupPGMG", FALSE, <<>>),
            Phase("devTeardown", FALSE,
                  << << HookSpec("teardown", FALSE, FALSE, TRUE, FALSE, FALSE) >> >>),
            Phase("removeDevMigrationRecords", FALSE, << <<>> >>) >>
    ELSE << Phase("dropCreate", ~a.restore, <<>>),
            Phase("restore", ~a.restore, <<>>),
            Phase("setupPGMG", FALSE, <<>>),
            Phase("clusterMigrate", FALSE,
                  << << HookSpec("teardown", ~a.dev, FALSE, TRUE, FALSE, FALSE),
                        HookSpec("cluster", FALSE, TRUE, FALSE, TRUE, FALSE) >> >>),
            Phase("databaseMigrate", FALSE,
                  << << HookSpec("action", FALSE, TRUE, FALSE, FALSE, FALSE),
                        HookSpec("always", FALSE, TRUE, FALSE, FALSE, TRUE) >> >>) >>

\* The hook phase of a phase: every phase has at most one.
hookPhase(p) == IF Len(p.hooks) = 0 THEN <<>> ELSE p.hooks[1]

\* ---------------------------------------------------------- generated roles

\* slugify: newlines stripped, trimmed, lower-cased, '-' and white space
\* replaced by '_'.  The names of the model are their own slugs.
slugify(s) == s

migration_user(n) == "pgmg_migration_" \o slugify(n)

service_user(n) == "pgmg_service_" \o slugify(n)

Ambient == "ambient"

GeneratedRoles == {migration_user(n) : n \in Names} \cup {service_user(n) : n \in Names}

\* teardown_pgmg_objects dropping the migration role only.
teardown_pgmg_objects_KeepsService(roles, n) == roles \ {migration_user(n)}

\* teardown_pgmg_objects: each of the two roles that exists is dropped.
teardown_pgmg_objects(roles, n) == roles \ {migration_user(n), service_user(n)}

\* create_pgmg_objects returning on an existing role outside --dev too.
create_pgmg_objects_Lenient(roles, n, dev) ==
    IF migration_user(n) \in roles
    THEN [roles |-> roles, threw |-> FALSE]
    ELSE LET r1 == roles \cup {migration_user(n)}
         IN  IF service_user(n) \in r1
             THEN [roles |-> r1, threw |-> FALSE]
             ELSE [roles |-> r1 \cup {service_user(n)}, threw |-> FALSE]

\* create_pgmg_objects: [roles, threw].  The loop over the two targets throws
\* on the first that exists outside --dev, and in --dev RETURNS on the first
\* that exists, leaving the targets after it unvisited.
create_pgmg_objects(roles, n, dev) ==
    IF migration_user(n) \in roles
    THEN [roles |-> roles, threw |-> ~dev]
    ELSE LET r1 == roles \cup {migration_user(n)}
         IN  IF service_user(n) \in r1
             THEN [roles |-> r1, threw |-> ~dev]
             ELSE [roles |-> r1 \cup {service_user(n)}, threw |-> FALSE]

\* ------------------------------------------------------- the loaded module

\* rawModule.managedUsers !== false
autoMigrationUserEnabled(raw) == raw.managedUsers # "false"

\* module.managedUsers, as a truth value (line 1080): the wrapped module
\* spreads rawModule, so an unexported managedUsers stays undefined.
managedUsersTruthy(raw) == raw.managedUsers = "true"

\* moduleHas without the generated wrappers: module is rawModule itself.
moduleHas_NoWrappers(raw, hook) ==
    CASE hook = "teardown" -> raw.teardown
      [] hook = "cluster"  -> raw.cluster
      [] hook = "action"   -> raw.action
      [] hook = "always"   -> raw.always
      [] OTHER             -> FALSE

\* Whether module[hook] is defined, module being rawModule wrapped with a
\* generated teardown and cluster when managed users are enabled.
moduleHas(raw, hook) ==
    CASE hook = "teardown" -> autoMigrationUserEnabled(raw) \/ raw.teardown
      [] hook = "cluster"  -> autoMigrationUserEnabled(raw) \/ raw.cluster
      [] hook = "action"   -> raw.action
      [] hook = "always"   -> raw.always
      [] OTHER             -> FALSE

\* `action`: module[hook], or for the action hook of a legacy file its
\* exported transaction.
hasAction(raw, hook) ==
    moduleHas(raw, hook) \/ (hook = "action" /\ raw.transaction)

\* The body the user wrote that invoking `action` runs, if any.
rawBody(raw, hook) ==
    CASE hook = "teardown" -> raw.teardown
      [] hook = "cluster"  -> raw.cluster
      [] hook = "action"   -> raw.action \/ raw.transaction
      [] hook = "always"   -> raw.always
      [] OTHER             -> FALSE

\* The descriptor validation at the head of doHookPhase's loop.
validModule(raw) ==
    raw.name /\ (raw.action \/ raw.always \/ raw.cluster \/ raw.teardown \/ raw.transaction)

\* --------------------------------------------------------------- the store

HookRow(n, h, dev, host, at, rev) ==
    [name |-> n, hook |-> h, dev |-> dev, hostname |-> host, created_at |-> at,
     revision |-> rev]

MigrationRow(n, at) == [name |-> n, created_at |-> at]

\* insert into pgmg.migration ... on conflict (name) do nothing
insertMigration(M, n, at) ==
    IF \E r \in M : r.name = n THEN M ELSE M \cup {MigrationRow(n, at)}

\* insertHook without the conflict clause: the row is added whatever is there.
insertHook_NoConflictClause(H, n, h, dev, host, at) ==
    H \cup {HookRow(n, h, dev, host, at, revision)}

\* insert into pgmg.migration_hook ... on conflict (hook, name) do nothing
insertHook(H, n, h, dev, host, at) ==
    IF \E r \in H : r.name = n /\ r.hook = h THEN H
    ELSE H \cup {HookRow(n, h, dev, host, at, revision)}

\* select ... from pgmg.migration where name = ${module.name}
anyMigrationFound(M, n) == \E r \in M : r.name = n

\* hooks_count without the created_at filter: rows of the running process count.
hooks_count_Unfiltered(H, n, startTime) ==
    Cardinality({r \in H : r.name = n})

\* select count(*) from pgmg.migration_hook where name = .. and created_at < migration_start_time
hooks_count(H, n, startTime) ==
    Cardinality({r \in H : r.name = n /\ r.created_at < startTime})

Undefined == [present |-> FALSE, dev |-> FALSE, hostname |-> "undefined"]

\* `found`: {} for an always hook, else the first row of the hook's own record
\* (joined to its migration) followed by the legacy row.
found(M, H, n, hook, always, host, startTime) ==
    IF always THEN [present |-> TRUE, dev |-> FALSE, hostname |-> "undefined"]
    ELSE LET joined == {r \in H : r.name = n /\ r.hook = hook /\ anyMigrationFound(M, n)}
             legacy == {r \in M : /\ r.name = n
                                  /\ hooks_count(H, n, startTime) = 0
                                  /\ r.created_at <= Cutover}
         IN  IF joined # {}
             THEN LET r == CHOOSE r \in joined : TRUE
                  IN  [present |-> TRUE, dev |-> r.dev, hostname |-> r.hostname]
             ELSE IF legacy # {}
             THEN [present |-> TRUE, dev |-> FALSE, hostname |-> host]
             ELSE Undefined

\* anyDevHookFound with the dev flag read the wrong way round.
anyDevHookFound_Inverted(M, H, n, always) ==
    always \/ (anyMigrationFound(M, n) /\ \E r \in H : r.name = n /\ ~r.dev)

\* `anyDevHookFound`: {} for an always hook, else a hook row of the name
\* flagged dev (joined to its migration).
anyDevHookFound(M, H, n, always) ==
    always \/ (anyMigrationFound(M, n) /\ \E r \in H : r.name = n /\ r.dev)

\* ----------------------------------------------------------- the decision

\* shouldContinue with the ifExists rule satisfied by ifExists alone.
shouldContinue_TeardownUngated(dryComplete, action, fnd, ifExists, dev, teardown, anyMigration, anyDevHook, hook, autoUser, ifNoMigrationUser, noMigrationUser, hostIsDifferent, always) ==
    \/ dryComplete
    \/ /\ action
       /\ \/ ~fnd.present /\ ~ifExists
          \/ fnd.present /\ fnd.dev /\ dev /\ teardown
          \/ ifExists
          \/ /\ fnd.present
             /\ hook = "cluster"
             /\ IF autoUser THEN ifNoMigrationUser /\ noMigrationUser
                            ELSE hostIsDifferent
          \/ always /\ action

\* shouldContinue with the first rule blind to the hook's record.
shouldContinue_IgnoresRecord(dryComplete, action, fnd, ifExists, dev, teardown, anyMigration, anyDevHook, hook, autoUser, ifNoMigrationUser, noMigrationUser, hostIsDifferent, always) ==
    \/ dryComplete
    \/ /\ action
       /\ \/ ~ifExists
          \/ fnd.present /\ fnd.dev /\ dev /\ teardown
          \/ ifExists /\ anyMigration /\ anyDevHook
          \/ /\ fnd.present
             /\ hook = "cluster"
             /\ IF autoUser THEN ifNoMigrationUser /\ noMigrationUser
                            ELSE hostIsDifferent
          \/ always /\ action

\* shouldContinue with --dry-complete honoured only where a body exists.
shouldContinue_DryCompleteNeedsBody(dryComplete, action, fnd, ifExists, dev, teardown, anyMigration, anyDevHook, hook, autoUser, ifNoMigrationUser, noMigrationUser, hostIsDifferent, always) ==
    /\ action
    /\ \/ dryComplete
       \/ ~fnd.present /\ ~ifExists
       \/ fnd.present /\ fnd.dev /\ dev /\ teardown
       \/ ifExists /\ anyMigration /\ anyDevHook
       \/ /\ fnd.present
          /\ hook = "cluster"
          /\ IF autoUser THEN ifNoMigrationUser /\ noMigrationUser
                         ELSE hostIsDifferent
       \/ always /\ action

\* shouldContinue with the cluster rule looking at the host name alone.
shouldContinue_ClusterHostOnly(dryComplete, action, fnd, ifExists, dev, teardown, anyMigration, anyDevHook, hook, autoUser, ifNoMigrationUser, noMigrationUser, hostIsDifferent, always) ==
    \/ dryComplete
    \/ /\ action
       /\ \/ ~fnd.present /\ ~ifExists
          \/ fnd.present /\ fnd.dev /\ dev /\ teardown
          \/ ifExists /\ anyMigration /\ anyDevHook
          \/ fnd.present /\ hook = "cluster" /\ hostIsDifferent
          \/ always /\ action

\* const shouldContinue = dryComplete || action && ( ... )
shouldContinue(dryComplete, action, fnd, ifExists, dev, teardown, anyMigration, anyDevHook, hook, autoUser, ifNoMigrationUser, noMigrationUser, hostIsDifferent, always) ==
    \/ dryComplete
    \/ /\ action
       /\ \/ ~fnd.present /\ ~ifExists
          \/ fnd.present /\ fnd.dev /\ dev /\ teardown
          \/ ifExists /\ anyMigration /\ anyDevHook
          \/ /\ fnd.present
             /\ hook = "cluster"
             /\ IF autoUser THEN ifNoMigrationUser /\ noMigrationUser
                            ELSE hostIsDifferent
          \/ always /\ action


\* ------------------------------------------------------------ the log

\* A user-written hook body is invoked, with the session role at that moment.
Body(n, hook, r) == [kind |-> "body", name |-> n, hook |-> hook, role |-> r]

\* A structural phase is performed.
Did(phase) == [kind |-> "phase", name |-> phase, hook |-> "", role |-> ""]

\* A user-written hook body threw.
Threw(n, hook) == [kind |-> "threw", name |-> n, hook |-> hook, role |-> ""]

\* teardown_pgmg_objects dropped a generated role of migration n.
Dropped(n) == [kind |-> "drop", name |-> n, hook |-> "", role |-> ""]

\* ------------------------------------------------------------ positions

\* The first index from i on of an entry of s not flagged skip (`continue`),
\* or Len(s) + 1.
firstFrom(s, i) ==
    CHOOSE j \in i..(Len(s) + 1) :
        /\ j = Len(s) + 1 \/ ~s[j].skip
        /\ \A k \in i..(j - 1) : s[k].skip

Pos(p, a, b, c) == [pc |-> p, ph |-> a, mi |-> b, hi |-> c]

\* The phases that do nothing but iterate their hook phase.
HookOnlyPhases == {"devTeardown", "clusterMigrate", "databaseMigrate"}

\* Where the phase loop stands once phase i is over.
afterPhase(a, i) ==
    LET j == firstFrom(order(a), i + 1)
    IN  IF j <= Len(order(a)) /\ order(a)[j].name \in HookOnlyPhases
        THEN Pos("migration", j, 1, 0)
        ELSE Pos("phase", j, 0, 0)

\* Where doHookPhase stands once migration m of phase i is over.
afterMigration(a, i, m) ==
    IF m < Len(migrations) THEN Pos("migration", i, m + 1, 0) ELSE afterPhase(a, i)

\* Where the loop over the hook specifications stands after entry h.
afterHook(a, i, m, h) ==
    LET hs == hookPhase(order(a)[i])
        j == firstFrom(hs, h + 1)
    IN  IF j <= Len(hs) THEN Pos("hook", i, m, j) ELSE afterMigration(a, i, m)

Goto(p) ==
    /\ pc' = p.pc
    /\ ph' = p.ph
    /\ mi' = p.mi
    /\ hi' = p.hi

curPhase == order(argv)[ph]

curHooks == hookPhase(curPhase)

\* The migrations taken from the last on the command line to the first.
curName_Reversed == migrations[Len(migrations) + 1 - mi]

curName == migrations[mi]

curSpec == curHooks[hi]

\* process.exit(code): the invocation is over.
Exit(code) ==
    /\ pc' = "idle"
    /\ exitCode' = code
    /\ UNCHANGED <<ph, mi, hi>>

\* ----------------------------------------------------------------- Init

Managed == RawModule(TRUE, TRUE, TRUE, TRUE, TRUE, FALSE, "undefined")

Explicit == RawModule(TRUE, TRUE, TRUE, TRUE, TRUE, FALSE, "true")

Unmanaged == RawModule(TRUE, TRUE, TRUE, TRUE, TRUE, FALSE, "false")

Bare == RawModule(TRUE, TRUE, TRUE, TRUE, FALSE, FALSE, "false")

ActionOnly == RawModule(TRUE, FALSE, TRUE, FALSE, FALSE, FALSE, "undefined")

\* A file that exports hooks and no name, and one that exports a name only.
Nameless == RawModule(FALSE, TRUE, TRUE, FALSE, FALSE, FALSE, "false")

Hookless == RawModule(TRUE, FALSE, FALSE, FALSE, FALSE, FALSE, "undefined")

FileSets ==
    { [n \in Names |-> IF n = "m1" THEN Managed ELSE Unmanaged],
      [n \in Names |-> IF n = "m1" THEN Unmanaged ELSE Explicit],
      [n \in Names |-> IF n = "m1" THEN ActionOnly ELSE Bare],
      [n \in Names |-> IF n = "m1" THEN Unmanaged ELSE Nameless],
      [n \in Names |-> IF n = "m1" THEN Hookless ELSE Managed] }

FlakyChoices ==
    { {}, {<<"m1", "teardown">>}, {<<"m1", "cluster">>}, {<<"m2", "action">>} }

Cmd(a, h) == [argv |-> a, hostname |-> h]

Prod == [NoArgv EXCEPT !.prod = TRUE]

Dev == [NoArgv EXCEPT !.dev = TRUE]

\* What the operator types in one behaviour: a production deployment across
\* two hosts, a developer's loop, restores, dry runs, and misuse of the flags.
Deployment ==
    { Cmd(Prod, "host-a"), Cmd(Prod, "host-b"),
      Cmd([Prod EXCEPT !.dryComplete = TRUE], "host-a") }

DevLoop ==
    { Cmd(Dev, "host-a"), Cmd([Dev EXCEPT !.teardown = TRUE], "host-a"),
      Cmd(Prod, "host-a"), Cmd([Prod EXCEPT !.dryComplete = TRUE], "host-a") }

Restores ==
    { Cmd([Prod EXCEPT !.restore = TRUE], "host-a"),
      Cmd([Dev EXCEPT !.restore = TRUE], "host-a"),
      Cmd(Prod, "host-a") }

DryRuns ==
    { Cmd(Dev, "host-a"),
      Cmd([Dev EXCEPT !.dry = TRUE], "host-a"),
      Cmd([Dev EXCEPT !.dry = TRUE, !.teardown = TRUE], "host-a"),
      Cmd([Prod EXCEPT !.restore = TRUE, !.dry = TRUE], "host-a") }

Misuse ==
    { Cmd(Dev, "host-a"),
      Cmd([Prod EXCEPT !.teardown = TRUE], "host-a"),
      Cmd(NoArgv, "host-a"),
      Cmd([Dev EXCEPT !.prod = TRUE], "host-a") }

\* The tables the production database, on host-b, holds for these files: what
\* a backup handed to --restore carries.
ProdBackup ==
    [migration |-> {MigrationRow(n, Earlier) : n \in Names},
     migration_hook |->
        {HookRow(n, h, FALSE, "host-b", Earlier, revision) :
            n \in Names, h \in {"cluster", "action", "always"}}]

EmptyBackup == [migration |-> {}, migration_hook |-> {}]

Backups == {EmptyBackup, ProdBackup}

\* The tables before the first invocation of the behaviour: none yet, or the
\* rows an earlier pgmg version left, one of them at the cutover instant.
FreshStore == [migration |-> {}, migration_hook |-> {}]

LegacyStore ==
    [migration |-> {MigrationRow(n, IF n = "m1" THEN Before ELSE Cutover) : n \in Names},
     migration_hook |-> {}]

\* The behaviours checked: what the operator types, over which tables.
Scenarios ==
    [cmds : {Deployment, DevLoop}, store : {FreshStore, LegacyStore}]
    \cup [cmds : {Restores, DryRuns, Misuse}, store : {FreshStore}]

NoPrev == Cmd(NoArgv, "none")

Init ==
    /\ files \in FileSets
    /\ flaky \in FlakyChoices
    /\ \E s \in Scenarios :
          /\ cmds = s.cmds
          /\ migration = s.store.migration
          /\ migration_hook = s.store.migration_hook
    /\ pg_roles = {}
    /\ healthFile = FALSE
    /\ run = 0
    /\ argv = NoArgv
    /\ hostname = "none"
    /\ pc = "idle"
    /\ ph = 0
    /\ mi = 0
    /\ hi = 0
    /\ noMigrationUserFound = FALSE
    /\ role = Ambient
    /\ exitCode = -1
    /\ log = <<>>
    /\ start = [migration |-> migration, migration_hook |-> migration_hook,
                pg_roles |-> {}, healthFile |-> FALSE]
    /\ prev = NoPrev
    /\ before = NoPrev

\* ---------------------------------------------------------------- actions

\* Time passes between two invocations: what the last process stamped `now`
\* is Earlier than the start of the next.
aged(T) ==
    {[r EXCEPT !.created_at = IF @ = now THEN Earlier ELSE @] : r \in T}

\* The mode guard with its first test, on both flags at once, left out.
modeGuard_OnlyNeither(a) == ~(a.dev \/ a.prod)

\* if ( argv.dev && argv.prod ) exit(1); if (!(argv.dev || argv.prod)) exit(1)
modeGuard(a) == (a.dev /\ a.prod) \/ ~(a.dev \/ a.prod)

\* The CLI is invoked: the mode guard, then the phase loop starts.
StartRun(c) ==
    /\ pc = "idle"
    /\ run < MaxRuns
    /\ run' = run + 1
    /\ argv' = c.argv
    /\ hostname' = c.hostname
    /\ prev' = IF exitCode = 0 THEN Cmd(argv, hostname) ELSE NoPrev
    /\ before' = IF exitCode = 0 THEN prev ELSE NoPrev
    /\ migration' = aged(migration)
    /\ migration_hook' = aged(migration_hook)
    /\ start' = [migration |-> aged(migration), migration_hook |-> aged(migration_hook),
                 pg_roles |-> pg_roles, healthFile |-> healthFile]
    /\ log' = <<>>
    /\ role' = Ambient
    /\ IF modeGuard(c.argv)
       THEN /\ pc' = "idle"
            /\ exitCode' = 1
            /\ ph' = 0
            /\ mi' = 0
            /\ hi' = 0
       ELSE /\ Goto(afterPhase(c.argv, 0))
            /\ exitCode' = -1
    /\ UNCHANGED <<files, flaky, cmds, pg_roles, healthFile, noMigrationUserFound>>

AtPhase(name) ==
    /\ pc = "phase"
    /\ ph <= Len(order(argv))
    /\ curPhase.name = name

\* drop database if exists; create database; resetConnection.  The statements
\* run on the cluster connection and may be refused by the server.
DropCreate(ok) ==
    /\ AtPhase("dropCreate")
    /\ IF ok
       THEN /\ migration' = {}
            /\ migration_hook' = {}
            /\ log' = Append(log, Did("dropCreate"))
            /\ Goto(afterPhase(argv, ph))
            /\ UNCHANGED exitCode
       ELSE /\ Exit(1)
            /\ UNCHANGED <<migration, migration_hook, log>>
    /\ role' = Ambient
    /\ UNCHANGED <<files, flaky, cmds, pg_roles, healthFile, run, argv, hostname,
                   noMigrationUserFound, start, prev, before>>

\* Restore with a failure of pg_restore ending the process.
Restore_Aborts(ok, b) ==
    /\ AtPhase("restore")
    /\ IF ok
       THEN /\ migration' = b.migration
            /\ migration_hook' = b.migration_hook
            /\ log' = Append(log, Did("restore"))
            /\ Goto(afterPhase(argv, ph))
            /\ UNCHANGED exitCode
       ELSE /\ log' = Append(log, Did("restoreFailed"))
            /\ Exit(1)
            /\ UNCHANGED <<migration, migration_hook>>
    /\ UNCHANGED <<files, flaky, cmds, pg_roles, healthFile, run, argv, hostname,
                   noMigrationUserFound, role, start, prev, before>>

\* pg_restore ... .nothrow(): the backup's tables are loaded, or the tool
\* fails and the run goes on.
Restore(ok, b) ==
    /\ AtPhase("restore")
    /\ IF ok
       THEN /\ migration' = b.migration
            /\ migration_hook' = b.migration_hook
            /\ log' = Append(log, Did("restore"))
       ELSE /\ log' = Append(log, Did("restoreFailed"))
            /\ UNCHANGED <<migration, migration_hook>>
    /\ Goto(afterPhase(argv, ph))
    /\ UNCHANGED <<files, flaky, cmds, pg_roles, healthFile, run, argv, hostname,
                   noMigrationUserFound, role, exitCode, start, prev, before>>

\* The rows setupPGMG copies: an action row for every transaction row, unless
\* the name has an action row already.
transactionCopies(H) ==
    {HookRow(r.name, "action", r.dev, r.hostname, r.created_at, NullRevision) :
        r \in {t \in H : /\ t.hook = "transaction"
                         /\ ~\E x \in H : x.name = t.name /\ x.hook = "action"}}

\* setupPGMG: the health-check file is removed, the connection reset, the
\* schema created if absent, transaction rows copied to action rows.
SetupPGMG ==
    /\ AtPhase("setupPGMG")
    /\ healthFile' = FALSE
    /\ role' = Ambient
    /\ migration_hook' = migration_hook \cup transactionCopies(migration_hook)
    /\ log' = Append(log, Did("setupPGMG"))
    /\ Goto(afterPhase(argv, ph))
    /\ UNCHANGED <<files, flaky, cmds, migration, pg_roles, run, argv, hostname,
                   noMigrationUserFound, exitCode, start, prev, before>>

\* delete from pgmg.migration_hook where dev
purgedHooks(H) == {r \in H : ~r.dev}

\* delete from pgmg.migration where created_at >= cutover and it has no hook row
purgedMigrations(M, H) ==
    {r \in M : ~(r.created_at >= Cutover /\ ~\E x \in H : x.name = r.name)}

\* removeDevMigrationRecords, then its (empty) hook phase begins.
RemoveDevMigrationRecords ==
    /\ AtPhase("removeDevMigrationRecords")
    /\ migration_hook' = purgedHooks(migration_hook)
    /\ migration' = purgedMigrations(migration, purgedHooks(migration_hook))
    /\ log' = Append(log, Did("removeDevMigrationRecords"))
    /\ Goto(Pos("migration", ph, 1, 0))
    /\ UNCHANGED <<files, flaky, cmds, pg_roles, healthFile, run, argv, hostname,
                   noMigrationUserFound, role, exitCode, start, prev, before>>

\* After the last phase: 'Migration complete', the health-check file written.
Finish ==
    /\ pc = "phase"
    /\ ph > Len(order(argv))
    /\ healthFile' = TRUE
    /\ Exit(0)
    /\ UNCHANGED <<files, flaky, cmds, migration, migration_hook, pg_roles, run,
                   argv, hostname, noMigrationUserFound, role, log, start, prev, before>>

\* doHookPhase, head of the loop over the migrations: the connection is
\* reset, the file imported and validated, the migration role looked up; then
\* the loop over the hook specifications starts.
BeginMigration ==
    /\ pc = "migration"
    /\ role' = Ambient
    /\ IF validModule(files[curName])
       THEN /\ noMigrationUserFound' = (migration_user(curName) \notin pg_roles)
            /\ Goto(afterHook(argv, ph, mi, 0))
            /\ UNCHANGED exitCode
       ELSE /\ Exit(1)
            /\ UNCHANGED noMigrationUserFound
    /\ UNCHANGED <<files, flaky, cmds, migration, migration_hook, pg_roles,
                   healthFile, run, argv, hostname, log, start, prev, before>>

\* ------------------------------------------------------- one hook of one pass

curFound ==
    found(migration, migration_hook, curName, curSpec.name, curSpec.always,
          hostname, migration_start_time)

\* getHostName() !== found?.hostname
hostIsDifferent(fnd, host) == host # fnd.hostname

\* shouldContinue for the hook specification at hand, from the queries the
\* loop body makes.
decision ==
    shouldContinue(argv.dryComplete,
                   hasAction(files[curName], curSpec.name),
                   curFound,
                   curSpec.ifExists,
                   argv.dev,
                   moduleHas(files[curName], "teardown"),
                   anyMigrationFound(migration, curName),
                   anyDevHookFound(migration, migration_hook, curName, curSpec.always),
                   curSpec.name,
                   autoMigrationUserEnabled(files[curName]),
                   curSpec.ifNoMigrationUser,
                   noMigrationUserFound,
                   hostIsDifferent(curFound, hostname),
                   curSpec.always)

\* shouldContinue is false, or it is true under --dry: nothing is run and
\* nothing recorded.
PassHook ==
    /\ pc = "hook"
    /\ ~decision \/ argv.dry
    /\ Goto(afterHook(argv, ph, mi, hi))
    /\ UNCHANGED <<files, flaky, cmds, migration, migration_hook, pg_roles,
                   healthFile, run, argv, hostname, noMigrationUserFound, role,
                   exitCode, log, start, prev, before>>

\* The hook insert as an upsert: an existing row takes the new dev flag and
\* host name.
rememberedHook_Upsert(H, spec, n, dev, host) ==
    IF spec.rememberChange
    THEN insertHook({IF r.name = n /\ r.hook = spec.name
                     THEN [r EXCEPT !.dev = dev, !.hostname = host]
                     ELSE r : r \in H},
                    n, spec.name, dev, host, now)
    ELSE H

\* The two inserts made when the hook specification carries rememberChange.
rememberedMigration(M, spec, n) ==
    IF spec.rememberChange THEN insertMigration(M, n, now) ELSE M

rememberedHook(H, spec, n, dev, host) ==
    IF spec.rememberChange THEN insertHook(H, n, spec.name, dev, host, now) ELSE H

\* --dry-complete: the body is not invoked, the records are written.
DryCompleteHook ==
    /\ pc = "hook"
    /\ decision
    /\ ~argv.dry
    /\ argv.dryComplete
    /\ migration' = rememberedMigration(migration, curSpec, curName)
    /\ migration_hook' = rememberedHook(migration_hook, curSpec, curName, argv.dev, hostname)
    /\ Goto(afterHook(argv, ph, mi, hi))
    /\ UNCHANGED <<files, flaky, cmds, pg_roles, healthFile, run, argv, hostname,
                   noMigrationUserFound, role, exitCode, log, start, prev, before>>

\* Whether `set role <migration role>` precedes the body.
setsRole(raw, hook) == managedUsersTruthy(raw) /\ hook \notin {"cluster", "teardown"}

\* invoke with the body's error swallowed: the caller is told nothing threw.
invoke_Swallows(raw, n, hook, roles, dev, bodyOk, r) ==
    [roles |-> roles, threw |-> FALSE,
     events |-> IF ~rawBody(raw, hook) THEN <<>>
                ELSE IF ~bodyOk THEN <<Body(n, hook, r), Threw(n, hook)>>
                ELSE <<Body(n, hook, r)>>]

\* What `await action(app.sql, ...)` does: [roles, threw, events].  bodyOk is
\* whether the user's body, if one is invoked, returns normally; r is the
\* session role it is invoked under.
invoke(raw, n, hook, roles, dev, bodyOk, r) ==
    LET userThrew == rawBody(raw, hook) /\ ~bodyOk
        user == IF ~rawBody(raw, hook) THEN <<>>
                ELSE IF userThrew THEN <<Body(n, hook, r), Threw(n, hook)>>
                ELSE <<Body(n, hook, r)>>
    IN  IF autoMigrationUserEnabled(raw) /\ hook = "teardown"
        THEN IF ~dev THEN [roles |-> roles, threw |-> FALSE, events |-> <<>>]
             ELSE IF userThrew THEN [roles |-> roles, threw |-> TRUE, events |-> user]
             ELSE [roles |-> teardown_pgmg_objects(roles, n), threw |-> FALSE,
                   events |-> IF teardown_pgmg_objects(roles, n) # roles
                              THEN user \o <<Dropped(n)>> ELSE user]
        ELSE IF autoMigrationUserEnabled(raw) /\ hook = "cluster"
        THEN LET c == create_pgmg_objects(roles, n, dev)
             IN  IF c.threw THEN [roles |-> c.roles, threw |-> TRUE, events |-> <<>>]
                 ELSE [roles |-> c.roles, threw |-> userThrew, events |-> user]
        ELSE [roles |-> roles, threw |-> userThrew, events |-> user]

\* `reset role` left out: the session keeps the role it has.
resetRole_Kept(r) == r

\* `reset role`: the session is under the ambient role again, whatever role
\* it was under.
resetRole(r) == Ambient

\* The roles the session may be under when a body returns: a body the user
\* wrote is handed the session and may leave it under any role that exists.
bodyRole(raw, hook, r, roles) ==
    IF rawBody(raw, hook) THEN {r} \cup roles ELSE {r}

\* The hook runs: reset role, set role when managedUsers is set, the body,
\* reset role, the records; a throw anywhere ends the process with status 1.
RunHook(bodyOk) ==
    /\ pc = "hook"
    /\ decision
    /\ ~argv.dry
    /\ ~argv.dryComplete
    /\ bodyOk \/ <<curName, curSpec.name>> \in flaky
    /\ LET raw == files[curName]
           sets == setsRole(raw, curSpec.name)
       IN  IF sets /\ migration_user(curName) \notin pg_roles
           THEN \* set role fails: the body is never reached
                /\ bodyOk
                /\ role' = Ambient
                /\ Exit(1)
                /\ UNCHANGED <<migration, migration_hook, pg_roles, log>>
           ELSE LET r == IF sets THEN migration_user(curName) ELSE resetRole(role)
                    res == invoke(raw, curName, curSpec.name, pg_roles, argv.dev, bodyOk, r)
                IN  /\ bodyOk \/ rawBody(raw, curSpec.name)
                    /\ pg_roles' = res.roles
                    /\ log' = log \o res.events
                    /\ IF res.threw
                       THEN /\ role' = r
                            /\ Exit(1)
                            /\ UNCHANGED <<migration, migration_hook>>
                       ELSE /\ \E br \in bodyRole(raw, curSpec.name, r, res.roles) :
                                   role' = resetRole(br)
                            /\ migration' = rememberedMigration(migration, curSpec, curName)
                            /\ migration_hook' =
                                   rememberedHook(migration_hook, curSpec, curName,
                                                  argv.dev, hostname)
                            /\ Goto(afterHook(argv, ph, mi, hi))
                            /\ UNCHANGED exitCode
    /\ UNCHANGED <<files, flaky, cmds, healthFile, run, argv, hostname,
                   noMigrationUserFound, start, prev, before>>

\* -------------------------------------------------------------- properties

\* The i-th thing this invocation did is the invocation of the body `h` the
\* user wrote in migration n.
BodyAt(i, n, h) ==
    log[i].kind = "body" /\ log[i].name = n /\ log[i].hook = h

Invoked(n, h) == \E i \in 1..Len(log) : BodyAt(i, n, h)

Times(n, h) == Cardinality({i \in 1..Len(log) : BodyAt(i, n, h)})

\* The invocation ended with 'Migration complete'.
Completed == pc = "idle" /\ exitCode = 0

ProdMode(a) == a.prod /\ ~a.dev

DevMode(a) == a.dev /\ ~a.prod

\* A run that migrates: it neither previews, nor marks, nor restores.
Ordinary(a) == ~a.dry /\ ~a.dryComplete /\ ~a.restore

HookRowsOf(H, n, h) == {r \in H : r.name = n /\ r.hook = h}

\* C1: after a production run completed, a second production run on the same
\* database, host and migration files invokes no body other than always
\* bodies and inserts no row into pgmg.migration.
C1_NoReExecutionInProduction ==
    ( /\ prev # NoPrev
      /\ ProdMode(prev.argv) /\ Ordinary(prev.argv)
      /\ ProdMode(argv) /\ Ordinary(argv)
      /\ hostname = prev.hostname )
    => /\ \A i \in 1..Len(log) : log[i].kind = "body" => log[i].hook = "always"
       /\ \A r \in migration : r.created_at # now

\* The tables held no pgmg row when this invocation started.
FreshAtStart == start.migration = {} /\ start.migration_hook = {}

\* Migration n exports a cluster, an action and an always body.
HasAllThree(n) == files[n].cluster /\ files[n].action /\ files[n].always

AppliedOnce(n) ==
    /\ Times(n, "cluster") = 1
    /\ Times(n, "action") = 1
    /\ Times(n, "always") = 1
    /\ Cardinality({r \in migration : r.name = n}) = 1
    /\ Cardinality({r \in migration_hook : r.name = n}) = 3
    /\ {r.hook : r \in {x \in migration_hook : x.name = n}} = {"cluster", "action", "always"}

\* C2: on a fresh database, one complete production run invokes the cluster,
\* action and always bodies of a migration that defines all three exactly once
\* each, and leaves exactly one pgmg.migration row and exactly three
\* pgmg.migration_hook rows (cluster, action, always) for it.
C2_FirstApplication ==
    (Completed /\ ProdMode(argv) /\ Ordinary(argv) /\ FreshAtStart)
    => \A n \in Names : HasAllThree(n) => AppliedOnce(n)

\* A complete production run on a fresh database applied such a migration.
C2_Witness ==
    /\ Completed /\ ProdMode(argv) /\ Ordinary(argv) /\ FreshAtStart
    /\ \E n \in Names : HasAllThree(n) /\ AppliedOnce(n)

\* This step invokes the body `h` the user wrote in migration n.
NewBody(n, h) ==
    \E i \in (Len(log) + 1)..Len(log') :
        log'[i].kind = "body" /\ log'[i].name = n /\ log'[i].hook = h

\* C3: in production runs, aborted ones included, an action body is never
\* invoked while pgmg.migration_hook holds an action row of its migration: a
\* restarted run executes only what has no record.
C3_ActionNeverReinvoked ==
    [][\A n \in Names :
          (ProdMode(argv) /\ NewBody(n, "action"))
          => HookRowsOf(migration_hook, n, "action") = {}]_vars

\* A production run restarted after an aborted one: it found the action row
\* the aborted run wrote, left that body alone and ran the one still missing.
C3_Witness ==
    /\ Completed /\ ProdMode(argv) /\ run >= 2 /\ prev = NoPrev
    /\ \A c \in cmds : ProdMode(c.argv)
    /\ \E n, k \in Names :
          /\ files[n].action
          /\ HookRowsOf(start.migration_hook, n, "action") # {}
          /\ ~Invoked(n, "action")
          /\ HookRowsOf(start.migration_hook, k, "action") = {}
          /\ Invoked(k, "action")

\* This step is the one in which a body the user wrote throws.
BodyFails ==
    /\ Len(log') > Len(log)
    /\ log'[Len(log')].kind = "threw"

\* The last thing this invocation did was a body that threw.
Failed == Len(log) > 0 /\ log[Len(log)].kind = "threw"

\* C4: when a hook body fails the process exits with a non-zero status
\* without writing a row for the failed hook and without touching the rows
\* written before; after the failure nothing more is invoked in that run
\* (the only step left is the start of another invocation).
C4_FailureAborts ==
    [][ /\ BodyFails =>
            /\ pc' = "idle"
            /\ exitCode' # 0 /\ exitCode' # -1
            /\ migration' = migration
            /\ migration_hook' = migration_hook
        /\ Failed =>
            /\ pc = "idle"
            /\ log' = <<>> /\ run' = run + 1 ]_vars

\* A run aborted by a failing body after it had recorded other hooks: the
\* rows of this run are there, none of them is of the failed hook.
C4_Witness ==
    /\ Failed /\ pc = "idle" /\ exitCode = 1
    /\ \E r \in migration_hook : r.created_at = now
    /\ \A r \in migration_hook :
          (r.name = log[Len(log)].name /\ r.hook = log[Len(log)].hook)
          => r.created_at # now

\* Normal mode: every command line but --dev --teardown.
NormalMode(a) == ~(a.dev /\ a.teardown)

IsBody(i, hooks) == log[i].kind = "body" /\ log[i].hook \in hooks

\* The place of migration n on the command line.
Index(n) == CHOOSE i \in 1..Len(migrations) : migrations[i] = n

ClusterPending ==
    /\ pc # "idle"
    /\ ph <= Len(order(argv))
    /\ curPhase.name \in {"dropCreate", "restore", "setupPGMG", "clusterMigrate"}

\* C6: in a normal-mode run no teardown or cluster body is invoked after an
\* action or always body, and once an action or always body was invoked no
\* hook of the teardown/cluster group is pending for any migration.
C6_ClusterGroupFirst ==
    NormalMode(argv)
    => /\ \A i, j \in 1..Len(log) :
             i < j => ~(IsBody(i, {"action", "always"}) /\ IsBody(j, {"teardown", "cluster"}))
       /\ (\E i \in 1..Len(log) : IsBody(i, {"action", "always"})) => ~ClusterPending

\* A complete run in which the last migration's cluster body was invoked and,
\* after it, the first migration's action body.
C6_Witness ==
    /\ Completed /\ NormalMode(argv)
    /\ \E i, j \in 1..Len(log) :
          /\ i < j
          /\ BodyAt(i, migrations[Len(migrations)], "cluster")
          /\ BodyAt(j, migrations[1], "action")

\* Migration n has managed users disabled, exports a cluster body, and its
\* cluster hook is on record under host-a as this run, under host-b, starts.
RecordedOnOtherHost(n) ==
    /\ ~autoMigrationUserEnabled(files[n])
    /\ files[n].cluster
    /\ hostname = "host-b"
    /\ \E r \in HookRowsOf(start.migration_hook, n, "cluster") : r.hostname = "host-a"

\* The previous invocation was a complete migrating run under host-b.
FollowsRunOnHostB ==
    /\ prev # NoPrev
    /\ prev.hostname = "host-b"
    /\ NormalMode(prev.argv) /\ Ordinary(prev.argv)

\* C7: a cluster hook recorded under host-a, of a migration with managed
\* users disabled, is re-triggered by a run under host-b, and not again by
\* the run under host-b that follows it.
C7_ClusterOncePerHost ==
    (Completed /\ NormalMode(argv) /\ Ordinary(argv))
    => \A n \in Names :
          RecordedOnOtherHost(n)
          => IF FollowsRunOnHostB THEN ~Invoked(n, "cluster") ELSE Invoked(n, "cluster")

\* Migration n exports teardown, cluster and action bodies, and its cluster
\* and action hooks are on record, flagged dev, as this run starts.
RecordedInDev(n) ==
    /\ files[n].teardown /\ files[n].cluster /\ files[n].action
    /\ \A h \in {"cluster", "action"} :
          /\ HookRowsOf(start.migration_hook, n, h) # {}
          /\ \A r \in HookRowsOf(start.migration_hook, n, h) : r.dev

\* C8: in a development run, for a migration with a teardown body whose hooks
\* were recorded with dev = true, the cluster and action bodies are invoked
\* only after its teardown body, and a run that completes has invoked both
\* again.
C8_DevLoopReapplies ==
    (DevMode(argv) /\ NormalMode(argv) /\ Ordinary(argv))
    => \A n \in Names :
          RecordedInDev(n)
          => /\ \A j \in 1..Len(log) :
                   (BodyAt(j, n, "cluster") \/ BodyAt(j, n, "action"))
                   => \E i \in 1..(j - 1) : BodyAt(i, n, "teardown")
             /\ Completed => Invoked(n, "cluster") /\ Invoked(n, "action")

\* A complete development run that tore such a migration down and applied
\* it again: teardown, then cluster, then action.
C8_Witness ==
    /\ Completed /\ DevMode(argv) /\ NormalMode(argv) /\ Ordinary(argv)
    /\ \E n \in Names :
          /\ RecordedInDev(n)
          /\ \E i, j, k \in 1..Len(log) :
                /\ i < j /\ j < k
                /\ BodyAt(i, n, "teardown")
                /\ BodyAt(j, n, "cluster")
                /\ BodyAt(k, n, "action")

RecordedInProd(n) ==
    /\ \E r \in start.migration_hook : r.name = n
    /\ \A r \in start.migration_hook :
          r.name = n => ~r.dev /\ r.hostname = hostname
    /\ \A h \in {"cluster", "action"} :
          hasAction(files[n], h) => HookRowsOf(start.migration_hook, n, h) # {}

\* This run neither invoked a teardown, cluster or action body of migration n
\* nor dropped a generated role of it.
LeftAlone(n) ==
    /\ ~Invoked(n, "teardown") /\ ~Invoked(n, "cluster") /\ ~Invoked(n, "action")
    /\ \A i \in 1..Len(log) : log[i] # Dropped(n)
    /\ (start.pg_roles \cap {migration_user(n), service_user(n)}) \subseteq pg_roles

\* C10: a migration whose hooks were all recorded by production runs is left
\* alone by every later development run on the same host, in normal and in
\* teardown mode: no teardown, cluster or action body of it is invoked and
\* its generated roles are not dropped.
C10_ProdRecordsNeverRerunInDev ==
    (DevMode(argv) /\ ~argv.restore)
    => \A n \in Names : RecordedInProd(n) => LeftAlone(n)

LegacyAtStart(n) ==
    /\ \E r \in start.migration : r.name = n /\ r.created_at <= Cutover
    /\ \A r \in start.migration_hook : r.name # n

\* C12, as stated: in a run that starts with such a legacy record, none of
\* the action, cluster and always bodies of that migration is invoked.
C12_LegacyAllHooksSkipped ==
    ~argv.restore
    => \A n \in Names :
          LegacyAtStart(n)
          => ~Invoked(n, "action") /\ ~Invoked(n, "cluster") /\ ~Invoked(n, "always")

\* C12, amended: for the whole run the action body of such a migration is
\* not invoked, and neither is its cluster body when managed users are
\* disabled or its generated migration role exists; its always body is
\* invoked by a run that migrates to completion, as on every run.
C12_LegacyActionAndClusterSkipped ==
    ~argv.restore
    => \A n \in Names :
          LegacyAtStart(n)
          => /\ ~Invoked(n, "action")
             /\ (~autoMigrationUserEnabled(files[n]) \/ migration_user(n) \in start.pg_roles)
                => ~Invoked(n, "cluster")
             /\ (Completed /\ Ordinary(argv) /\ NormalMode(argv) /\ files[n].always)
                => Invoked(n, "always")

\* A complete run over a legacy record of a migration with managed users
\* disabled: rows of it were written in this very run, its always body ran,
\* its action and cluster bodies did not.
C12_Witness ==
    /\ Completed /\ Ordinary(argv) /\ NormalMode(argv)
    /\ \E n \in Names :
          /\ LegacyAtStart(n)
          /\ ~autoMigrationUserEnabled(files[n])
          /\ files[n].action /\ files[n].cluster /\ files[n].always
          /\ \E r \in migration_hook : r.name = n /\ r.created_at = now
          /\ Invoked(n, "always")
          /\ ~Invoked(n, "action") /\ ~Invoked(n, "cluster")

\* Migration n was applied by a pgmg that kept no hook records: its
\* pgmg.migration row is from before the cutover.
LegacyOrigin(n) == \E r \in start.migration : r.name = n /\ r.created_at <= Cutover

\* This run is a migrating production run with no failing body, the first of
\* the behaviour or the successor of a complete migrating production run.
SuccessfulProdSequence ==
    /\ flaky = {}
    /\ ProdMode(argv) /\ Ordinary(argv)
    /\ run = 1 \/ (prev # NoPrev /\ ProdMode(prev.argv) /\ Ordinary(prev.argv))

\* C13: no sequence of successful production runs invokes the action body of
\* a migration whose pgmg.migration row predates the cutover and had no hook
\* rows, on the first run or on any later one.
C13_LegacyProtectionLasts ==
    SuccessfulProdSequence
    => \A n \in Names : LegacyOrigin(n) => ~Invoked(n, "action")

\* The hook at hand is about to run: shouldContinue holds and the run is
\* neither --dry nor --dry-complete.
HookRuns(h) ==
    /\ pc = "hook"
    /\ curSpec.name = h
    /\ decision
    /\ ~argv.dry /\ ~argv.dryComplete

\* C14: in production, when the cluster hook of a migration with managed
\* users runs and the generated migration role exists, the process exits with
\* a non-zero status having created no role, invoked no body and written no
\* record.
C14_RoleConflict ==
    [][( /\ ProdMode(argv)
         /\ HookRuns("cluster")
         /\ autoMigrationUserEnabled(files[curName])
         /\ migration_user(curName) \in pg_roles )
       => /\ pc' = "idle"
          /\ exitCode' # 0 /\ exitCode' # -1
          /\ pg_roles' = pg_roles
          /\ log' = log
          /\ migration' = migration
          /\ migration_hook' = migration_hook]_vars

\* A production run that ended at the cluster hook of a migration with
\* managed users whose role existed from an earlier, aborted run: status 1,
\* nothing invoked for it, nothing written, the roles as they were.
C14_Witness ==
    /\ pc = "idle" /\ exitCode = 1 /\ ProdMode(argv) /\ Ordinary(argv)
    /\ hi > 0 /\ curSpec.name = "cluster"
    /\ autoMigrationUserEnabled(files[curName])
    /\ migration_user(curName) \in start.pg_roles
    /\ pg_roles = start.pg_roles
    /\ ~Failed
    /\ ~Invoked(curName, "cluster")
    /\ \A r \in migration_hook : r.name = curName => r.created_at # now

\* The session role a body of hook h of migration n is to be invoked under.
ExpectedRole(n, h) ==
    IF autoMigrationUserEnabled(files[n]) /\ h \in {"action", "always"}
    THEN migration_user(n)
    ELSE Ambient

\* C15: an action or always body of a migration whose managedUsers is not
\* disabled (exported true or not exported) is invoked under the migration's
\* generated migration role; cluster and teardown bodies, and the bodies of
\* migrations with managedUsers disabled, under the ambient role.
C15_ActivationDiscipline ==
    \A i \in 1..Len(log) :
        log[i].kind = "body" => log[i].role = ExpectedRole(log[i].name, log[i].hook)

\* The normal-mode phase an entry of the log belongs to: 1 dropCreate,
\* 2 restore, 3 setupPGMG, 4 clusterMigrate, 5 databaseMigrate.
PhaseRank(e) ==
    CASE e.kind = "phase" /\ e.name = "dropCreate" -> 1
      [] e.kind = "phase" /\ e.name \in {"restore", "restoreFailed"} -> 2
      [] e.kind = "phase" /\ e.name = "setupPGMG" -> 3
      [] e.kind = "drop" -> 4
      [] e.kind \in {"body", "threw"} /\ e.hook \in {"teardown", "cluster"} -> 4
      [] OTHER -> 5

Performed(phases) ==
    \E i \in 1..Len(log) : log[i].kind = "phase" /\ log[i].name \in phases

C17_ClusterBeforeRestore ==
    (NormalMode(argv) /\ argv.restore)
    => \A i, j \in 1..Len(log) :
          (log[i].kind = "phase" /\ log[i].name \in {"restore", "restoreFailed"})
          => /\ IsBody(j, {"cluster"}) => j < i
             /\ IsBody(j, {"action"}) => i < j

\* Teardown mode: --dev --teardown.
TeardownMode(a) == DevMode(a) /\ a.teardown

\* The teardown-mode phase an entry of the log belongs to: 1 setupPGMG,
\* 2 devTeardown, 3 removeDevMigrationRecords.
TeardownRank(e) ==
    CASE e.kind = "phase" /\ e.name = "setupPGMG" -> 1
      [] e.kind = "phase" /\ e.name = "removeDevMigrationRecords" -> 3
      [] OTHER -> 2

\* C18: a teardown-mode run sets up the schema, then runs the teardown hooks
\* of all the migrations, then purges the development records: it invokes no
\* cluster, action or always body, and it purges only once the teardown pass
\* is over without a failure, so a failing teardown body leaves every record
\* in place.
C18_TeardownModeOrder ==
    TeardownMode(argv)
    => /\ \A i \in 1..Len(log) : ~IsBody(i, {"cluster", "action", "always"})
       /\ \A i, j \in 1..Len(log) :
             i < j => TeardownRank(log[i]) <= TeardownRank(log[j])
       /\ Len(log) > 0 => TeardownRank(log[1]) = 1
       /\ Performed({"removeDevMigrationRecords"})
             => /\ \A i \in 1..Len(log) : log[i].kind # "threw"
                /\ pc = "idle" \/ ph >= Len(order(argv))
       /\ ~Performed({"removeDevMigrationRecords"})
             => /\ start.migration \subseteq migration
                /\ start.migration_hook \subseteq migration_hook

\* A teardown-mode run aborted by a failing teardown body while development
\* records existed: they are all still there, nothing was purged.
C18_Witness ==
    /\ TeardownMode(argv) /\ pc = "idle" /\ exitCode = 1 /\ Failed
    /\ \E r \in start.migration_hook : r.dev
    /\ migration = start.migration
    /\ migration_hook = start.migration_hook
    /\ ~Performed({"removeDevMigrationRecords"})

\* C19: an invocation with --teardown and without --dev exits non-zero and
\* invokes no hook body.
C19_TeardownRequiresDev ==
    (run > 0 /\ argv.teardown /\ ~argv.dev)
    => /\ \A i \in 1..Len(log) : log[i].kind # "body"
       /\ pc = "idle" => exitCode # 0

\* Neither or both of --dev and --prod were given.
ModeMissingOrDouble(a) == a.dev = a.prod

\* C20: exactly one of --dev and --prod is required: with neither or both
\* the process exits non-zero at once, before any session is used and before
\* any mutation (no schema setup, no hook body, no record written, no role
\* created or activated, health file untouched).
C20_ModeGuard ==
    (run > 0 /\ ModeMissingOrDouble(argv))
    => /\ pc = "idle" /\ exitCode = 1
       /\ log = <<>>
       /\ role = Ambient
       /\ migration = start.migration
       /\ migration_hook = start.migration_hook
       /\ pg_roles = start.pg_roles
       /\ healthFile = start.healthFile

\* Both modes given against a database that already holds records: the
\* process has exited 1 and the records are as they were.
C20_Witness ==
    /\ run > 0 /\ argv.dev /\ argv.prod /\ pc = "idle" /\ exitCode = 1
    /\ start.migration # {} /\ start.migration_hook # {}
    /\ migration = start.migration

\* Some supplied migration file lacks a name or exports no lifecycle hook.
InvalidSupplied == \E n \in Names : ~validModule(files[n])

\* C21: when a supplied descriptor lacks its required fields the run is fatal
\* and nothing was done before the error is reported: no schema setup, no hook
\* body of an earlier migration, no record written.
C21_DescriptorCheckedFirst ==
    (run > 0 /\ InvalidSupplied)
    => /\ pc = "idle" => exitCode # 0
       /\ log = <<>>
       /\ migration = start.migration
       /\ migration_hook = start.migration_hook

\* C22: a run with --dry invokes no hook body and, the schema setup apart,
\* leaves the database as it found it, in every mode: no row of pgmg.migration
\* or pgmg.migration_hook inserted or deleted, no generated role created or
\* dropped, the database neither dropped nor re-created nor restored, also
\* with --teardown and with --restore.
C22_DryMutatesNothing ==
    (run > 0 /\ argv.dry)
    => /\ \A i \in 1..Len(log) : log[i].kind \notin {"body", "drop"}
       /\ ~Performed({"dropCreate", "restore", "removeDevMigrationRecords"})
       /\ migration = start.migration
       /\ migration_hook \in
             {start.migration_hook,
              start.migration_hook \cup transactionCopies(start.migration_hook)}
       /\ pg_roles = start.pg_roles

\* A run with --dry-complete and without --dry.
MarksComplete(a) == a.dryComplete /\ ~a.dry

\* The hook specifications of the order in effect that are not skipped and
\* carry rememberChange.
RememberedSpecs(a) ==
    UNION { { hookPhase(order(a)[i])[j].name :
                j \in { k \in 1..Len(hookPhase(order(a)[i])) :
                          /\ ~hookPhase(order(a)[i])[k].skip
                          /\ hookPhase(order(a)[i])[k].rememberChange } } :
            i \in { k \in 1..Len(order(a)) : ~order(a)[k].skip } }

\* C23: a run with --dry-complete (without --dry) invokes no hook body,
\* decides true on every hook of every migration whether or not the file
\* defines a body for it, and once complete has left, for every migration and
\* every hook specification carrying rememberChange (cluster, action,
\* always), a pgmg.migration row and a pgmg.migration_hook row.
C23_DryCompleteMarks ==
    (run > 0 /\ MarksComplete(argv))
    => /\ \A i \in 1..Len(log) : log[i].kind # "body"
       /\ pc = "hook" => decision
       /\ Completed
             => \A n \in Names : \A h \in RememberedSpecs(argv) :
                   /\ \E r \in migration : r.name = n
                   /\ HookRowsOf(migration_hook, n, h) # {}

\* A complete --dry-complete run on a fresh database marked the always hook of
\* a file that defines no always body.
C23_Witness ==
    /\ MarksComplete(argv) /\ Completed /\ FreshAtStart
    /\ RememberedSpecs(argv) = {"cluster", "action", "always"}
    /\ \E n \in Names :
          /\ ~hasAction(files[n], "always")
          /\ HookRowsOf(migration_hook, n, "always") # {}
          /\ \E r \in migration : r.name = n

\* C24: once a --dry-complete production run has marked the migrations as
\* complete, an ordinary production run over the same files on the same host
\* skips them: it invokes none of their cluster or action bodies.
C24_MarkedCompleteIsSkipped ==
    ( /\ prev # NoPrev
      /\ ProdMode(prev.argv) /\ MarksComplete(prev.argv) /\ ~prev.argv.restore
      /\ ProdMode(argv) /\ Ordinary(argv)
      /\ hostname = prev.hostname )
    => \A i \in 1..Len(log) : ~IsBody(i, {"cluster", "action"})

\* Migration file n defines an action hook and nothing else, managedUsers
\* left at its default.
OnlyAction(n) == files[n] = ActionOnly

\* A production run over an empty database and a server without generated
\* roles has ended, and no body threw.
FirstProdRunEnded ==
    /\ run > 0 /\ pc = "idle"
    /\ ProdMode(argv) /\ Ordinary(argv)
    /\ FreshAtStart /\ start.pg_roles = {}
    /\ \A i \in 1..Len(log) : log[i].kind # "threw"

HookRowsOfName(n) == {r \in migration_hook : r.name = n}

\* C25, as stated: a migration with only an action hook, run once in
\* production against an empty database, ends with exit code 0, exactly one
\* pgmg.migration row of its name and exactly one pgmg.migration_hook row of
\* its name, (hook = action, dev = false).
C25_OneLedgerRow ==
    FirstProdRunEnded
    => \A n \in Names :
          OnlyAction(n)
          => /\ exitCode = 0
             /\ Cardinality({r \in migration : r.name = n}) = 1
             /\ Cardinality(HookRowsOfName(n)) = 1
             /\ \A r \in HookRowsOfName(n) : r.hook = "action" /\ ~r.dev

\* C25, amended: the run ends with exit code 0, exactly one pgmg.migration row
\* of the name and exactly two pgmg.migration_hook rows of the name, both with
\* dev = false: the action row and the row of the generated cluster hook,
\* which created the migration's two roles; the action body ran once.
C25_ActionAndGeneratedClusterRows ==
    FirstProdRunEnded
    => \A n \in Names :
          OnlyAction(n)
          => /\ exitCode = 0
             /\ Cardinality({r \in migration : r.name = n}) = 1
             /\ Cardinality(HookRowsOfName(n)) = Cardinality({"cluster", "action"})
             /\ {r.hook : r \in HookRowsOfName(n)} = {"cluster", "action"}
             /\ \A r \in HookRowsOfName(n) : ~r.dev
             /\ {migration_user(n), service_user(n)} \subseteq pg_roles
             /\ Times(n, "action") = 1
             /\ Times(n, "cluster") = 0

\* Such a run over an action-only migration has ended.
C25_Witness ==
    /\ FirstProdRunEnded /\ exitCode = 0
    /\ \E n \in Names :
          /\ OnlyAction(n)
          /\ {r.hook : r \in HookRowsOfName(n)} = {"cluster", "action"}
          /\ Times(n, "action") = 1

\* The hook-group pass a hook belongs to, and its place inside the group.
PassOf(h) == IF h \in {"teardown", "cluster"} THEN 1 ELSE 2

PlaceOf(h) == IF h \in {"teardown", "action"} THEN 1 ELSE 2

\* Body entry i of the log comes before body entry j in the order pass,
\* then migration as passed by the caller, then hook inside the group.
InSequence(l, i, j) ==
    \/ PassOf(l[i].hook) < PassOf(l[j].hook)
    \/ /\ PassOf(l[i].hook) = PassOf(l[j].hook)
       /\ \/ Index(l[i].name) < Index(l[j].name)
          \/ /\ l[i].name = l[j].name
             /\ PlaceOf(l[i].hook) < PlaceOf(l[j].hook)

BodiesOf(l) == {i \in 1..Len(l) : l[i].kind = "body"}

\* C26: execution is sequential and follows the caller's order: in each pass
\* the migrations are taken in the order passed, a step starts at most one
\* body, and a body starts only when every body started before it in the run
\* has returned and its records, if its hook is remembered, are written.
C26_StrictlySequential ==
    [][ /\ Cardinality(BodiesOf(log')) <= Cardinality(BodiesOf(log)) + 1
        /\ \A i, j \in BodiesOf(log') : i < j => InSequence(log', i, j)
        /\ \A n \in Names, h \in HookNames :
              NewBody(n, h)
              => \A i \in BodiesOf(log) :
                    /\ ~\E k \in 1..Len(log) : log[k].kind = "threw"
                    /\ log[i].hook \in {"cluster", "action", "always"}
                          => HookRowsOf(migration_hook, log[i].name, log[i].hook) # {}
      ]_vars

\* A complete run that invoked bodies of both migrations in both passes.
C26_Witness ==
    /\ Completed
    /\ Times("m1", "cluster") > 0 /\ Times("m2", "cluster") > 0
    /\ Times("m1", "action") > 0 /\ Times("m2", "always") > 0

\* This step is a pg_restore that failed.
RestoreFails == Len(log') > Len(log) /\ log'[Len(log')] = Did("restoreFailed")

\* C27: a failure of pg_restore does not abort the run: the process goes on
\* to setupPGMG, with the database as dropCreate left it, and from there to
\* clusterMigrate and databaseMigrate as after a successful restore; the run
\* can still end with exit code 0, and when it does (--dry apart) every body
\* the files define has been invoked on the new database.
C27_RestoreFailureTolerated ==
    [][ /\ RestoreFails
           => /\ pc' = "phase" /\ exitCode' = exitCode
              /\ order(argv)[ph'].name = "setupPGMG"
              /\ UNCHANGED <<migration, migration_hook, pg_roles>>
        /\ \A i \in 1..(Len(log') - 1) :
              log'[i] = Did("restoreFailed") => log'[i + 1] = Did("setupPGMG")
        /\ (Performed({"restoreFailed"}) /\ ~argv.dry /\ pc # "idle" /\ pc' = "idle" /\ exitCode' = 0)
           => /\ Performed({"setupPGMG"})
              /\ \A n \in Names : \A h \in {"cluster", "action", "always"} :
                    rawBody(files[n], h) => Invoked(n, h)
      ]_vars

\* A run whose pg_restore failed ended with exit code 0 after invoking hook
\* bodies.
C27_Witness ==
    /\ Completed /\ argv.restore
    /\ Performed({"restoreFailed"}) /\ Performed({"setupPGMG"})
    /\ \E n \in Names : Invoked(n, "cluster") /\ Invoked(n, "action")

\* C28: with a health-check file configured, the file exists after a run if
\* and only if the run completed without error; a run that fails, in whatever
\* phase, leaves none behind, also when an earlier run had written one.
C28_HealthFileIffSuccess ==
    (run > 0 /\ pc = "idle") => (healthFile <=> exitCode = 0)

\* A generated role of managed migration n was on the server when this
\* invocation started, and no production record of n explains it.
LeftoverRole(n) ==
    /\ autoMigrationUserEnabled(files[n])
    /\ {migration_user(n), service_user(n)} \cap start.pg_roles # {}
    /\ \A r \in start.migration_hook : r.name = n => r.dev

\* Entry i of the log belongs to the teardown hook of migration n: its body,
\* or the drop of its generated roles.
TeardownAt(i, n) ==
    /\ log[i].name = n
    /\ \/ log[i].kind = "drop"
       \/ log[i].kind = "body" /\ log[i].hook = "teardown"

\* C29: in development mode, when a generated role of a migration is still on
\* the server at the start of the run, the teardown hook of that migration
\* runs before any of its forward hooks, persisted record or not.
C29_LeftoverRoleTornDown ==
    (run > 0 /\ DevMode(argv) /\ NormalMode(argv) /\ ~argv.dry /\ ~argv.dryComplete)
    => \A n \in Names :
          LeftoverRole(n)
          => \A j \in 1..Len(log) :
                (log[j].name = n /\ IsBody(j, {"cluster", "action", "always"}))
                => \E i \in 1..(j - 1) : TeardownAt(i, n)

\* The decision rule as specified: true under --dry-complete; otherwise true
\* exactly when a body exists for the hook and the hook is an always hook, or
\* (1) it was never recorded and is not gated by ifExists, or (2) it was
\* recorded with dev = true, the run is in development mode and a teardown
\* body exists, or (3) it is gated by ifExists, a pgmg.migration row exists
\* and some hook of the name was recorded with dev = true, or (4) it was
\* recorded, is the cluster hook, and either managed users are enabled and the
\* migration role is absent, or they are disabled and the recorded host name
\* differs from the current one.
SpecifiedDecision(dryComplete, body, isAlways, recorded, recordedDev, ifExists, dev, teardownBody, migrationRecord, devRecorded, hook, managed, roleAbsent, hostDiffers) ==
    IF dryComplete THEN TRUE
    ELSE /\ body
         /\ \/ isAlways
            \/ ~recorded /\ ~ifExists
            \/ recorded /\ recordedDev /\ dev /\ teardownBody
            \/ ifExists /\ migrationRecord /\ devRecorded
            \/ /\ recorded
               /\ hook = "cluster"
               /\ \/ managed /\ roleAbsent
                  \/ ~managed /\ hostDiffers

KeysHold(M, H) ==
    /\ \A r, q \in M : r.name = q.name => r = q
    /\ \A r, q \in H : (r.name = q.name /\ r.hook = q.hook) => r = q
    /\ \A r \in H : \E q \in M : q.name = r.name

\* C31: whatever the runs and their modes, pgmg.migration holds at most one
\* row per name, pgmg.migration_hook at most one row per (name, hook), every
\* hook row names an existing migration row, and a hook step that records
\* what is already recorded changes neither table.
C31_KeysAndIdempotentInserts ==
    [][ /\ KeysHold(migration, migration_hook)
        /\ KeysHold(migration', migration_hook')
        /\ pc = "hook"
           => /\ migration \subseteq migration'
              /\ migration_hook \subseteq migration_hook'
              /\ anyMigrationFound(migration, curName) => migration' = migration
              /\ HookRowsOf(migration_hook, curName, curSpec.name) # {}
                    => migration_hook' = migration_hook
      ]_vars

\* A development run invoked again an action body recorded by an earlier
\* run: the row of that run is still the only one.
C31_Witness ==
    /\ DevMode(argv) /\ Completed
    /\ \E n \in Names :
          /\ Invoked(n, "action")
          /\ \E r \in HookRowsOf(migration_hook, n, "action") : r.created_at = Earlier
          /\ Cardinality(HookRowsOf(migration_hook, n, "action")) = 1

\* C32: removeDevMigrationRecords deletes exactly the hook rows flagged dev,
\* then exactly the migration rows created after the legacy cutover that have
\* no hook row left; non-dev hook rows, migration rows with a hook row, and
\* migration rows of the legacy era, one created at the cutover instant
\* included, stay.
C32_PurgeExact ==
    [][ AtPhase("removeDevMigrationRecords")
        => /\ migration_hook' = {r \in migration_hook : ~r.dev}
           /\ migration' =
                 {r \in migration :
                     \/ r.created_at <= Cutover
                     \/ \E x \in migration_hook' : x.name = r.name}
      ]_vars

\* C33: once a hook body has completed, normally or by throwing, the session
\* role is the ambient one again before anything else is done: the step that
\* invokes a body ends with the session reset.
C33_RoleResetAfterBody ==
    [][ (\E n \in Names, h \in HookNames : NewBody(n, h)) => role' = Ambient ]_vars

\* This step is the cluster hook of a managed migration run in --dev: the
\* generated wrapper calls create_pgmg_objects, which does not throw in --dev.
EnsuresRolesInDev ==
    /\ pc = "hook" /\ decision /\ ~argv.dry /\ ~argv.dryComplete
    /\ curSpec.name = "cluster"
    /\ autoMigrationUserEnabled(files[curName])
    /\ argv.dev

\* C34: create_pgmg_objects treats the two roles independently: in --dev what
\* is absent is created and what is present is left alone, so that once it has
\* returned both the migration role and the service role exist, whichever of
\* them existed before.
C34_BothRolesAfterEnsure ==
    [][ EnsuresRolesInDev
        => /\ pg_roles \subseteq pg_roles'
           /\ {migration_user(curName), service_user(curName)} \subseteq pg_roles'
      ]_vars

\* The cluster hook of a managed migration that has a cluster row is being
\* decided on, in a run that executes what it decides.
RecordedManagedCluster ==
    /\ pc = "hook" /\ curSpec.name = "cluster"
    /\ ~argv.dry /\ ~argv.dryComplete
    /\ autoMigrationUserEnabled(files[curName])
    /\ anyMigrationFound(migration, curName)
    /\ HookRowsOf(migration_hook, curName, "cluster") # {}

\* C35: with managed users enabled, a cluster hook that has a record is run
\* again if and only if the migration role is absent from the server at that
\* time.
C35_ClusterRerunIffRoleAbsent ==
    RecordedManagedCluster => (decision <=> migration_user(curName) \notin pg_roles)

\* C36: the session does not leak between migrations.  The step that begins
\* a migration in a pass leaves the session under the ambient role, and every
\* hook body is invoked under the ambient role or under the generated
\* migration role of the migration being processed, whatever role an earlier
\* body left the session under.
C36_NoSessionLeak ==
    [][ /\ pc = "migration" => role' = Ambient
        /\ \A i \in (Len(log) + 1)..Len(log') :
               log'[i].kind = "body"
               => log'[i].role \in {Ambient, migration_user(log'[i].name)} ]_vars

\* A run in which a migration without managed users had its action body and
\* then its always body invoked while generated roles of the other migration
\* existed, the always body under the ambient role, and the other migration
\* then had a body invoked under its own migration role.
C36_Witness ==
    \E n, o \in Names, i, j, k \in 1..Len(log) :
        /\ n # o /\ i < j /\ j < k
        /\ ~managedUsersTruthy(files[n])
        /\ migration_user(o) \in start.pg_roles
        /\ BodyAt(i, n, "action")
        /\ BodyAt(j, n, "always") /\ log[j].role = Ambient
        /\ log[k].kind = "body" /\ log[k].name = o
        /\ log[k].role = migration_user(o)

\* Row r of pgmg.migration_hook is still there after the step, with the dev
\* flag and the host name it had.
Kept(r) ==
    \E x \in migration_hook' :
        /\ x.name = r.name /\ x.hook = r.hook
        /\ x.dev = r.dev /\ x.hostname = r.hostname

\* C37, as stated: a row of pgmg.migration_hook keeps its dev flag and its
\* host name for as long as it exists, and no step but the purge of the
\* development records removes it.
C37_HookRecordFrozen ==
    [][ \A r \in migration_hook :
            AtPhase("removeDevMigrationRecords") \/ Kept(r) ]_vars

\* C37, amended: the same, for every step but the purge and the two steps of
\* a --restore run that replace the database, dropCreate and restore.
C37_HookRecordFrozenOutsideRestore ==
    [][ \A r \in migration_hook :
            \/ AtPhase("removeDevMigrationRecords")
            \/ AtPhase("dropCreate") \/ AtPhase("restore")
            \/ Kept(r) ]_vars

\* A completed run on another host than the one a cluster row names, in which
\* the cluster body of that migration was invoked again: the row still names
\* the first host and is as old as it was.
C37_Witness ==
    /\ Completed /\ ~argv.restore
    /\ \E n \in Names :
          /\ Invoked(n, "cluster")
          /\ \E r \in HookRowsOf(migration_hook, n, "cluster") :
                r.hostname # hostname /\ r.created_at = Earlier

\* C38: whenever the action or always body of a migration with managed users
\* enabled is invoked, the generated migration role of that migration exists
\* on the server.
C38_RoleExistsAtBody ==
    [][ \A n \in Names, h \in {"action", "always"} :
            (autoMigrationUserEnabled(files[n]) /\ NewBody(n, h))
            => migration_user(n) \in pg_roles ]_vars

\* C39: in a teardown-mode run, every row of pgmg.migration_hook the purge
\* deletes belongs to a migration whose teardown body was invoked earlier in
\* the run; the rows of a migration without a teardown body stay.
C39_PurgeOnlyTornDown ==
    [][ (TeardownMode(argv) /\ AtPhase("removeDevMigrationRecords"))
        => \A r \in migration_hook \ migration_hook' :
               Invoked(r.name, "teardown") ]_vars

\* Managed migration n was applied by development runs only: at the start of
\* this invocation it has a row of pgmg.migration written by an earlier run and
\* hook rows, all of them dev.
AppliedInDevOnly(n) ==
    /\ autoMigrationUserEnabled(files[n]) /\ validModule(files[n])
    /\ \E r \in start.migration : r.name = n /\ r.created_at = Earlier
    /\ \E r \in start.migration_hook : r.name = n
    /\ \A r \in start.migration_hook : r.name = n => r.dev

\* Nothing of migration n is left: no row in either table, no generated role.
NothingLeft(M, H, roles, n) ==
    /\ ~\E r \in M : r.name = n
    /\ ~\E r \in H : r.name = n
    /\ {migration_user(n), service_user(n)} \cap roles = {}

\* The hook rows a first development run writes for migration n.
FirstDevRows(n) ==
    {HookRow(n, h, TRUE, hostname, now, revision) :
        h \in {x \in {"cluster", "action", "always"} : hasAction(files[n], x)}}

\* C40: a successful teardown-mode run leaves no row and no generated role of
\* a managed migration that development runs alone had applied; and a
\* successful development run that finds nothing of a managed migration, the
\* first one or the one after the teardown, invokes its cluster and action
\* bodies and ends with the rows of a first development run.
C40_TeardownUndoesDev ==
    \A n \in Names :
        /\ (Completed /\ TeardownMode(argv) /\ Ordinary(argv) /\ AppliedInDevOnly(n))
           => NothingLeft(migration, migration_hook, pg_roles, n)
        /\ ( /\ Completed /\ DevMode(argv) /\ NormalMode(argv) /\ Ordinary(argv)
             /\ autoMigrationUserEnabled(files[n])
             /\ NothingLeft(start.migration, start.migration_hook, start.pg_roles, n) )
           => /\ rawBody(files[n], "cluster") => Invoked(n, "cluster")
              /\ rawBody(files[n], "action") => Invoked(n, "action")
              /\ \E r \in migration : r.name = n /\ r.created_at = now
              /\ {r \in migration_hook : r.name = n} = FirstDevRows(n)
              /\ {migration_user(n), service_user(n)} \subseteq pg_roles

\* The third of three successful invocations on one host, --dev, then
\* --dev --teardown, then --dev: a managed migration with a cluster and an
\* action body found nothing of itself, had both bodies invoked again and
\* ends with the rows and the roles of a first development run.
C40_Witness ==
    /\ Completed /\ DevMode(argv) /\ NormalMode(argv) /\ Ordinary(argv)
    /\ prev = Cmd([Dev EXCEPT !.teardown = TRUE], hostname)
    /\ before = Cmd(Dev, hostname)
    /\ \E n \in Names :
          /\ autoMigrationUserEnabled(files[n])
          /\ NothingLeft(start.migration, start.migration_hook, start.pg_roles, n)
          /\ Invoked(n, "cluster") /\ Invoked(n, "action")
          /\ {r \in migration_hook : r.name = n} = FirstDevRows(n)
          /\ migration_user(n) \in pg_roles

\* ------------------------------------------------------------ specification

Next ==
    \/ \E c \in cmds : StartRun(c)
    \/ \E ok \in BOOLEAN : DropCreate(ok)
    \/ \E ok \in BOOLEAN, b \in Backups : Restore(ok, b)
    \/ SetupPGMG
    \/ RemoveDevMigrationRecords
    \/ Finish
    \/ BeginMigration
    \/ PassHook
    \/ DryCompleteHook
    \/ \E bodyOk \in BOOLEAN : RunHook(bodyOk)

Spec == Init /\ [][Next]_vars

\* ------------------------------------- the decision, over every record state

\* What pgmg.migration and pgmg.migration_hook can hold for one migration
\* name when a run reaches it: no row; or a row in pgmg.migration, dated
\* before the cutover or after it, with for each remembered hook no row or
\* one row, written in --dev or not, on this host or another.
RowChoices(n, h, hosts) ==
    {{}} \cup {{HookRow(n, h, d, host, Earlier, revision)} : d \in BOOLEAN, host \in hosts}

DecisionStores ==
    {FreshStore}
    \cup { [migration |-> {MigrationRow("m1", at)}, migration_hook |-> c \cup a \cup w] :
             at \in {Before, Earlier},
             c \in RowChoices("m1", "cluster", Hosts),
             a \in RowChoices("m1", "action", {"host-a"}),
             w \in RowChoices("m1", "always", {"host-a"}) }

DecisionFiles ==
    { [n \in Names |-> IF n = "m1" THEN raw ELSE Bare] :
        raw \in {Managed, Unmanaged, Bare, ActionOnly} }

DecisionArgvs ==
    { Dev, Prod, [Dev EXCEPT !.teardown = TRUE], [Prod EXCEPT !.dryComplete = TRUE] }

\* A run that has set up the schema and enters its first hook phase.
InitDecision ==
    /\ files \in DecisionFiles
    /\ flaky = {}
    /\ argv \in DecisionArgvs
    /\ hostname = "host-a"
    /\ cmds = {Cmd(argv, hostname)}
    /\ pg_roles \in SUBSET {migration_user("m1"), service_user("m1")}
    /\ \E s \in DecisionStores :
          /\ migration = s.migration
          /\ migration_hook = s.migration_hook
          /\ start = [migration |-> s.migration, migration_hook |-> s.migration_hook,
                      pg_roles |-> pg_roles, healthFile |-> FALSE]
    /\ healthFile = FALSE
    /\ run = 1
    /\ pc = "migration"
    /\ ph = afterPhase(argv, firstFrom(order(argv), 1)).ph
    /\ mi = 1
    /\ hi = 0
    /\ noMigrationUserFound = FALSE
    /\ role = Ambient
    /\ exitCode = -1
    /\ log = <<Did("setupPGMG")>>
    /\ prev = NoPrev
    /\ before = NoPrev

\* doHookPhase from there on: the passes over the migrations and their hooks.
NextDecision ==
    \/ BeginMigration
    \/ PassHook
    \/ DryCompleteHook
    \/ \E bodyOk \in BOOLEAN : RunHook(bodyOk)

SpecDecision == InitDecision /\ [][NextDecision]_vars
====
